---- MODULE Spec2Model ----
(***************************************************************************)
(* Model of the voice-to-dwg backend: the in-memory LRU file cache         *)
(* (backend/file_cache.py), the drawing processor that normalises          *)
(* parameters, renders and stores drawings (backend/dwg_processor.py) and  *)
(* the HTTP handlers that call it (backend/main.py).                       *)
(*                                                                         *)
(* Python values are tagged records, byte strings are sequences of small   *)
(* integers, Python strings are sequences of one-character strings, and    *)
(* floats are integers counted in 1/Scale units.  metadata["created_at"]   *)
(* (a wall-clock reading that nothing in the program reads back) is left   *)
(* out of the metadata record.                                             *)
(***************************************************************************)
EXTENDS Integers, Sequences, FiniteSets, TLC

VARIABLES
    max_items,      \* InMemoryFileCache.max_items
    max_bytes,      \* InMemoryFileCache.max_bytes
    cache,          \* InMemoryFileCache._cache: entries, least recently used first
    current_bytes,  \* InMemoryFileCache.current_bytes
    recency,        \* history: live keys by time of last set / successful get, oldest first
    lastOp,         \* history: the last call and what it returned
    norm,           \* the parameter bag under normalisation and what _ensure_dimensions gave
    thr             \* the request threads: where each is in its handler, and its locals

cacheVars == <<max_items, max_bytes, cache, current_bytes, recency>>
aux == <<norm, thr>>
vars == <<max_items, max_bytes, cache, current_bytes, recency, lastOp, norm, thr>>

----------------------------------------------------------------------------
(* Bounds *)

MaxItemsBound == 2     \* max_items ranges over 0..MaxItemsBound
MaxBytesBound == 3     \* max_bytes ranges over 0..MaxBytesBound
MaxDataLen == 2        \* len(data) of a set call ranges over 0..MaxDataLen

Keys == {"a", "b", "c"}
Byte == {0, 1}

RECURSIVE SeqsUpTo(_, _)
SeqsUpTo(S, n) ==
    IF n = 0 THEN {<<>>}
    ELSE LET shorter == SeqsUpTo(S, n - 1)
         IN  shorter \cup {Append(s, x) : s \in {t \in shorter : Len(t) = n - 1}, x \in S}

\* byte strings of every length 0..MaxDataLen, one per fill byte
Blobs == {<<>>} \cup {[i \in 1..n |-> b] : n \in 1..MaxDataLen, b \in Byte}

----------------------------------------------------------------------------
(* Sequence helpers *)

RECURSIVE SumBytes(_)
SumBytes(c) == IF c = <<>> THEN 0 ELSE Len(Head(c).data) + SumBytes(Tail(c))

RECURSIVE Without(_, _)
Without(s, k) ==
    IF s = <<>> THEN <<>>
    ELSE IF Head(s) = k THEN Without(Tail(s), k)
    ELSE <<Head(s)>> \o Without(Tail(s), k)

Reverse(s) == [i \in 1..Len(s) |-> s[Len(s) + 1 - i]]

KeysOf(c) == [i \in 1..Len(c) |-> c[i].key]

HasKey(c, k) == \E i \in 1..Len(c) : c[i].key = k

IndexOf(c, k) == CHOOSE i \in 1..Len(c) : c[i].key = k

EntryOf(c, k) == c[IndexOf(c, k)]

\* OrderedDict: del d[k] / d.pop(k)
DictRemove(c, k) == SelectSeq(c, LAMBDA e : e.key # k)

----------------------------------------------------------------------------
(* InMemoryFileCache *)

NoMeta == [given |-> FALSE, filename |-> "", size |-> 0]

\* metadata or {"created_at": time.time(), "size": len(data)}
MetaOrDefault(metadata, data) ==
    IF metadata.given THEN metadata
    ELSE [given |-> FALSE, filename |-> "", size |-> Len(data)]

\* OrderedDict.move_to_end(key, last=True)
MoveToEnd(c, k) == Append(DictRemove(c, k), EntryOf(c, k))

\* (mutant) an "if" where the code has "while": one eviction at most
EvictOnce(c, cb, mi, mb, ev) ==
    IF ((Len(c) > mi) \/ (cb > mb)) /\ c # <<>>
    THEN [cache |-> Tail(c), current_bytes |-> cb - Len(Head(c).data),
          evicted |-> Append(ev, Head(c).key), raised |-> FALSE]
    ELSE [cache |-> c, current_bytes |-> cb, evicted |-> ev, raised |-> FALSE]

\* (mutant) eviction that never removes the last remaining entry
RECURSIVE EvictKeepLast(_, _, _, _, _)
EvictKeepLast(c, cb, mi, mb, ev) ==
    IF ((Len(c) > mi) \/ (cb > mb)) /\ Len(c) > 1
    THEN EvictKeepLast(Tail(c), cb - Len(Head(c).data), mi, mb, Append(ev, Head(c).key))
    ELSE [cache |-> c, current_bytes |-> cb, evicted |-> ev, raised |-> FALSE]

\* _evict_if_needed: pops the first item while either limit is exceeded.
\* popitem on an empty dict raises KeyError (raised = TRUE).
RECURSIVE EvictIfNeeded(_, _, _, _, _)
EvictIfNeeded(c, cb, mi, mb, ev) ==
    IF (Len(c) > mi) \/ (cb > mb)
    THEN IF c = <<>>
         THEN [cache |-> c, current_bytes |-> cb, evicted |-> ev, raised |-> TRUE]
         ELSE EvictIfNeeded(Tail(c), cb - Len(Head(c).data), mi, mb,
                            Append(ev, Head(c).key))
    ELSE [cache |-> c, current_bytes |-> cb, evicted |-> ev, raised |-> FALSE]

\* (mutant) the old entry is removed but its bytes stay counted
RemoveOldNoSubtract(c, cb, k) ==
    [cache |-> DictRemove(c, k), current_bytes |-> cb]

\* set, lines 17-20: an existing entry is removed and its bytes subtracted
RemoveOld(c, cb, k) ==
    IF HasKey(c, k)
    THEN [cache |-> DictRemove(c, k), current_bytes |-> cb - Len(EntryOf(c, k).data)]
    ELSE [cache |-> c, current_bytes |-> cb]

\* (mutant) the new entry goes to the least-recently-used end
InsertNewFront(c, cb, k, data, metadata) ==
    [cache |-> <<[key |-> k, data |-> data, meta |-> MetaOrDefault(metadata, data)]>> \o c,
     current_bytes |-> cb + Len(data)]

\* set, lines 21-23: insert, add the bytes, move to the end
InsertNew(c, cb, k, data, metadata) ==
    LET c1 == Append(c, [key |-> k, data |-> data, meta |-> MetaOrDefault(metadata, data)])
    IN  [cache |-> MoveToEnd(c1, k), current_bytes |-> cb + Len(data)]

\* set(key, data, metadata): the whole method
CacheSet(c, cb, mi, mb, k, data, metadata) ==
    LET r == RemoveOld(c, cb, k)
        i == InsertNew(r.cache, r.current_bytes, k, data, metadata)
    IN  EvictIfNeeded(i.cache, i.current_bytes, mi, mb, <<>>)

\* (mutant) a get that only looks up
CacheGetNoTouch(c, k) ==
    IF HasKey(c, k)
    THEN [cache |-> c, hit |-> TRUE, data |-> EntryOf(c, k).data]
    ELSE [cache |-> c, hit |-> FALSE, data |-> <<>>]

\* get(key): a hit moves the key to the end and returns the data
CacheGet(c, k) ==
    IF HasKey(c, k)
    THEN [cache |-> MoveToEnd(c, k), hit |-> TRUE, data |-> EntryOf(c, k).data]
    ELSE [cache |-> c, hit |-> FALSE, data |-> <<>>]

\* (mutant) a metadata read that promotes like get
CacheGetMetadataTouch(c, k) ==
    IF HasKey(c, k)
    THEN [cache |-> MoveToEnd(c, k), hit |-> TRUE, meta |-> EntryOf(c, k).meta]
    ELSE [cache |-> c, hit |-> FALSE, meta |-> NoMeta]

\* get_metadata(key): a lookup, nothing else
CacheGetMetadata(c, k) ==
    IF HasKey(c, k)
    THEN [cache |-> c, hit |-> TRUE, meta |-> EntryOf(c, k).meta]
    ELSE [cache |-> c, hit |-> FALSE, meta |-> NoMeta]

\* list_keys(): most recent first
ListKeys(c) == Reverse(KeysOf(c))

\* delete(key)
CacheDelete(c, cb, k) ==
    IF HasKey(c, k)
    THEN [cache |-> DictRemove(c, k), current_bytes |-> cb - Len(EntryOf(c, k).data),
          ok |-> TRUE]
    ELSE [cache |-> c, current_bytes |-> cb, ok |-> FALSE]

\* clear()
CacheClear == [cache |-> <<>>, current_bytes |-> 0]

----------------------------------------------------------------------------
(* Python values, as far as the processor looks at them *)

Scale == 2 * 1000      \* a float x is the integer x * Scale

None == [t |-> "none"]
Num(n) == [t |-> "num", n |-> n]
Bool(b) == [t |-> "bool", b |-> b]
Str(s) == [t |-> "str", s |-> s]
ListOf(items) == [t |-> "list", items |-> items]
Dict(d) == [t |-> "dict", d |-> d]      \* d: a function from the keys present

\* bool(v)
Truthy(v) ==
    CASE v.t = "none" -> FALSE
      [] v.t = "num"  -> v.n # 0
      [] v.t = "bool" -> v.b
      [] v.t = "str"  -> v.s # <<>>
      [] v.t = "list" -> v.items # <<>>
      [] v.t = "dict" -> DOMAIN v.d # {}

\* a or b
PyOr(a, b) == IF Truthy(a) THEN a ELSE b

\* d.get(k, default) on a dict
DictGet(v, k, default) == IF k \in DOMAIN v.d THEN v.d[k] ELSE default

UpperOf ==
    [a |-> "A", b |-> "B", c |-> "C", d |-> "D", e |-> "E", f |-> "F", g |-> "G",
     h |-> "H", i |-> "I", j |-> "J", k |-> "K", l |-> "L", m |-> "M", n |-> "N",
     o |-> "O", p |-> "P", q |-> "Q", r |-> "R", s |-> "S", t |-> "T", u |-> "U",
     v |-> "V", w |-> "W", x |-> "X", y |-> "Y", z |-> "Z"]

IsLower(c) == c \in DOMAIN UpperOf
Uppers == {UpperOf[l] : l \in DOMAIN UpperOf}
IsUpper(c) == c \in Uppers
LowerCh(c) == IF IsUpper(c) THEN CHOOSE l \in DOMAIN UpperOf : UpperOf[l] = c ELSE c
UpperCh(c) == IF IsLower(c) THEN UpperOf[c] ELSE c

\* str.lower()
Lower(s) == [i \in 1..Len(s) |-> LowerCh(s[i])]

\* str.title(): a letter after a non-letter is upper-cased, any other lower-cased
Title(s) ==
    [i \in 1..Len(s) |->
        IF i = 1 \/ ~(IsLower(s[i - 1]) \/ IsUpper(s[i - 1]))
        THEN UpperCh(s[i]) ELSE LowerCh(s[i])]

Digits == {"0", "1", "2", "3", "4", "5", "6", "7", "8", "9"}
IsDigit(c) == c \in Digits
DigitVal(c) ==
    CASE c = "0" -> 0 [] c = "1" -> 1 [] c = "2" -> 2 [] c = "3" -> 3 [] c = "4" -> 4
      [] c = "5" -> 5 [] c = "6" -> 6 [] c = "7" -> 7 [] c = "8" -> 8 [] c = "9" -> 9

RECURSIVE Pow10(_)
Pow10(n) == IF n = 0 THEN 1 ELSE 10 * Pow10(n - 1)

\* the last index of the run of digits that starts at j
RECURSIVE DigitRunEnd(_, _)
DigitRunEnd(s, j) == IF j < Len(s) /\ IsDigit(s[j + 1]) THEN DigitRunEnd(s, j + 1) ELSE j

\* the decimal value of the digits s[a..b]
RECURSIVE DigitsValue(_, _, _)
DigitsValue(s, a, b) ==
    IF b < a THEN 0 ELSE 10 * DigitsValue(s, a, b - 1) + DigitVal(s[b])

\* float("<int>.<frac>") in Scale units, for digits s[a..b] and s[c..d]
DecimalValue(s, a, b, c, d) ==
    DigitsValue(s, a, b) * Scale + (DigitsValue(s, c, d) * Scale) \div Pow10(d - c + 1)

\* the regex -?\d+(\.\d+)? can match starting at i
MatchesAt(s, i) ==
    \/ IsDigit(s[i])
    \/ s[i] = "-" /\ i < Len(s) /\ IsDigit(s[i + 1])

\* re.search(r'(-?\d+(\.\d+)?)', v) and float(m.group(1)): the leftmost
\* match, digits and fraction taken greedily; None when nothing matches
RegexNumber(s) ==
    IF ~\E i \in 1..Len(s) : MatchesAt(s, i) THEN None
    ELSE LET i == CHOOSE x \in 1..Len(s) :
                      MatchesAt(s, x) /\ \A y \in 1..(x - 1) : ~MatchesAt(s, y)
             neg == s[i] = "-"
             j == IF neg THEN i + 1 ELSE i
             e == DigitRunEnd(s, j)
             frac == e + 1 < Len(s) /\ s[e + 1] = "." /\ IsDigit(s[e + 2])
             f == IF frac THEN DigitRunEnd(s, e + 2) ELSE e + 1
             mag == IF frac THEN DecimalValue(s, j, e, e + 2, f)
                    ELSE DecimalValue(s, j, e, 1, 0)
         IN  Num(IF neg THEN 0 - mag ELSE mag)

\* _parse_number(v): a float or None
ParseNumber(v) ==
    CASE v.t = "none" -> None
      [] v.t = "num"  -> Num(v.n)
      [] v.t = "bool" -> Num(IF v.b THEN Scale ELSE 0)
      [] v.t = "str"  -> RegexNumber(v.s)
      [] OTHER        -> None

kitchen == <<"k", "i", "t", "c", "h", "e", "n">>
bedroom == <<"b", "e", "d", "r", "o", "o", "m">>
living_space_room == <<"l", "i", "v", "i", "n", "g", " ", "r", "o", "o", "m">>
living_room == <<"l", "i", "v", "i", "n", "g", "_", "r", "o", "o", "m">>
office == <<"o", "f", "f", "i", "c", "e">>
bathroom == <<"b", "a", "t", "h", "r", "o", "o", "m">>
room == <<"r", "o", "o", "m">>
feet == <<"f", "e", "e", "t">>
meters == <<"m", "e", "t", "e", "r", "s">>

\* defaults.get(room_type, defaults["room"]): (length, width, unit)
defaults(room_type) ==
    CASE room_type = kitchen           -> <<12 * Scale, 10 * Scale, feet>>
      [] room_type = bedroom           -> <<15 * Scale, 12 * Scale, feet>>
      [] room_type = living_space_room -> <<16 * Scale, 14 * Scale, feet>>
      [] room_type = living_room       -> <<16 * Scale, 14 * Scale, feet>>
      [] room_type = office            -> <<12 * Scale, 10 * Scale, feet>>
      [] room_type = bathroom          -> <<8 * Scale, 6 * Scale, feet>>
      [] OTHER                         -> <<10 * Scale, 10 * Scale, feet>>

Raised(exc) == [status |-> exc, length |-> 0, width |-> 0, unit |-> <<>>]

\* str(unit): a str is itself; of the other types only the ones the inputs
\* use are spelled out
PyStr(v) ==
    CASE v.t = "str" -> v.s
      [] v.t = "num" /\ v.n % Scale = 0 /\ v.n \div Scale \in 0..9 ->
             <<CHOOSE c \in Digits : DigitVal(c) = v.n \div Scale>>
      [] v.t = "bool" -> IF v.b THEN <<"T", "r", "u", "e">> ELSE <<"F", "a", "l", "s", "e">>
      [] OTHER -> <<"?">>

\* (mutant) a missing axis replaces both axes by the defaults
ResolveDimsBoth(length, width, chosen) ==
    IF length.t = "none" \/ width.t = "none"
    THEN <<chosen[1], chosen[2]>>
    ELSE <<length.n, width.n>>

\* _ensure_dimensions, lines 229-235: each missing axis gets its default
ResolveDims(length, width, chosen) ==
    <<IF length.t = "none" THEN chosen[1] ELSE length.n,
      IF width.t = "none" THEN chosen[2] ELSE width.n>>

\* (mutant) the sanity check lets zero through
DimsInvalidStrict(length, width) == length < 0 \/ width < 0

\* _ensure_dimensions, line 240
DimsInvalid(length, width) == length <= 0 \/ width <= 0

\* _ensure_dimensions(parameters)
EnsureDimensions(parameters) ==
    IF Truthy(parameters) /\ parameters.t # "dict" THEN Raised("AttributeError")
    ELSE
    LET rt0 == IF Truthy(parameters)
               THEN PyOr(DictGet(parameters, "room_type", None), Str(<<>>))
               ELSE Str(<<>>)
    IN  IF rt0.t # "str" THEN Raised("AttributeError")
        ELSE
        LET lowered == Lower(rt0.s)
            room_type == IF lowered = <<>> THEN room ELSE lowered
            dims == PyOr(DictGet(PyOr(parameters, Dict(<<>>)), "dimensions", None),
                         Dict(<<>>))
        IN  IF dims.t # "dict" THEN Raised("AttributeError")
            ELSE
            LET length_raw == DictGet(dims, "length", None)
                width_raw == DictGet(dims, "width", None)
                unit == PyOr(DictGet(dims, "unit", None), Str(feet))
                length == ParseNumber(length_raw)
                width == ParseNumber(width_raw)
                chosen == defaults(room_type)
                lw == ResolveDims(length, width, chosen)
            IN  IF DimsInvalid(lw[1], lw[2]) THEN Raised("HTTP400")
                ELSE [status |-> "ok", length |-> lw[1], width |-> lw[2],
                      unit |-> PyStr(unit)]

----------------------------------------------------------------------------
(* Rendering: the entities generate_dwg adds to the modelspace *)

north == <<"n", "o", "r", "t", "h">>
south == <<"s", "o", "u", "t", "h">>
east == <<"e", "a", "s", "t">>
west == <<"w", "e", "s", "t">>
front == <<"f", "r", "o", "n", "t">>
back == <<"b", "a", "c", "k">>
right == <<"r", "i", "g", "h", "t">>
left == <<"l", "e", "f", "t">>
door == <<"d", "o", "o", "r">>
window == <<"w", "i", "n", "d", "o", "w">>
DOOR == <<"D", "O", "O", "R">>
WINDOW == <<"W", "I", "N", "D", "O", "W">>
Room == <<"R", "o", "o", "m">>

\* msp.add_lwpolyline / add_text / add_line / add_arc
Polyline(points, close) == [kind |-> "LWPOLYLINE", points |-> points, close |-> close]
Text(content, insert, height, rotation) ==
    [kind |-> "TEXT", content |-> content, insert |-> insert, height |-> height,
     rotation |-> rotation]
Line(p1, p2) == [kind |-> "LINE", start |-> p1, end |-> p2]
Arc(center, radius, start_angle, end_angle) ==
    [kind |-> "ARC", center |-> center, radius |-> radius,
     start_angle |-> start_angle, end_angle |-> end_angle]

\* str.strip() for blanks
RECURSIVE LStrip(_)
LStrip(s) == IF s # <<>> /\ Head(s) = " " THEN LStrip(Tail(s)) ELSE s
Strip(s) == Reverse(LStrip(Reverse(LStrip(s))))

NoFloat == [ok |-> FALSE, n |-> 0]
Float(n) == [ok |-> TRUE, n |-> n]

\* float(str): blanks stripped, an optional sign, then digits, digits "." digits
\* or "." digits, and nothing else (exponents, inf and nan are not in the inputs)
FloatOfStr(s) ==
    LET t == Strip(s)
        neg == t # <<>> /\ t[1] = "-"
        u == IF t # <<>> /\ t[1] \in {"-", "+"} THEN Tail(t) ELSE t
        sign(n) == IF neg THEN 0 - n ELSE n
    IN  IF u = <<>> THEN NoFloat
        ELSE IF IsDigit(u[1])
        THEN LET e == DigitRunEnd(u, 1)
             IN  IF e = Len(u) THEN Float(sign(DecimalValue(u, 1, e, 1, 0)))
                 ELSE IF u[e + 1] # "." THEN NoFloat
                 ELSE IF e + 1 = Len(u) THEN Float(sign(DecimalValue(u, 1, e, 1, 0)))
                 ELSE IF IsDigit(u[e + 2]) /\ DigitRunEnd(u, e + 2) = Len(u)
                 THEN Float(sign(DecimalValue(u, 1, e, e + 2, Len(u))))
                 ELSE NoFloat
        ELSE IF u[1] = "." /\ Len(u) >= 2 /\ IsDigit(u[2]) /\ DigitRunEnd(u, 2) = Len(u)
        THEN Float(sign(DecimalValue(u, 1, 0, 2, Len(u))))
        ELSE NoFloat

\* float(v): TypeError for None, lists and dicts, ValueError for a bad string
FloatOf(v) ==
    CASE v.t = "num"  -> Float(v.n)
      [] v.t = "bool" -> Float(IF v.b THEN Scale ELSE 0)
      [] v.t = "str"  -> FloatOfStr(v.s)
      [] OTHER        -> NoFloat

Skipped == [raised |-> TRUE, prims |-> <<>>]
Drawn(prims) == [raised |-> FALSE, prims |-> prims]

\* (mutant) every door starts at the corner of its wall
DoorPrimsCorner(position, room_length, room_width, element_width) ==
    IF position \in {Str(east), Str(right)}
    THEN << Line(<<room_length, 0>>, <<room_length, element_width>>),
            Arc(<<room_length, 0>>, element_width, 180, 270),
            Text(DOOR, <<room_length - Scale, element_width \div 2>>, Scale \div 2, 0) >>
    ELSE IF position \in {Str(west), Str(left)}
    THEN << Line(<<0, 0>>, <<0, element_width>>),
            Arc(<<0, element_width>>, element_width, 0, 90),
            Text(DOOR, <<Scale, element_width \div 2>>, Scale \div 2, 0) >>
    ELSE IF position \in {Str(north), Str(front)}
    THEN << Line(<<0, room_width>>, <<element_width, room_width>>),
            Arc(<<0, room_width>>, element_width, 270, 360),
            Text(DOOR, <<element_width \div 2, room_width - Scale>>, Scale \div 2, 0) >>
    ELSE << Line(<<0, 0>>, <<element_width, 0>>),
            Arc(<<element_width, 0>>, element_width, 90, 180),
            Text(DOOR, <<element_width \div 2, Scale>>, Scale \div 2, 0) >>

\* _add_element_to_drawing, lines 332-357
DoorPrims(position, room_length, room_width, element_width) ==
    IF position \in {Str(east), Str(right)}
    THEN LET door_y == room_width \div 2 - element_width \div 2
         IN  << Line(<<room_length, door_y>>, <<room_length, door_y + element_width>>),
                Arc(<<room_length, door_y>>, element_width, 180, 270),
                Text(DOOR, <<room_length - Scale, door_y + element_width \div 2>>,
                     Scale \div 2, 0) >>
    ELSE IF position \in {Str(west), Str(left)}
    THEN LET door_y == room_width \div 2 - element_width \div 2
         IN  << Line(<<0, door_y>>, <<0, door_y + element_width>>),
                Arc(<<0, door_y + element_width>>, element_width, 0, 90),
                Text(DOOR, <<Scale, door_y + element_width \div 2>>, Scale \div 2, 0) >>
    ELSE IF position \in {Str(north), Str(front)}
    THEN LET door_x == room_length \div 2 - element_width \div 2
         IN  << Line(<<door_x, room_width>>, <<door_x + element_width, room_width>>),
                Arc(<<door_x, room_width>>, element_width, 270, 360),
                Text(DOOR, <<door_x + element_width \div 2, room_width - Scale>>,
                     Scale \div 2, 0) >>
    ELSE LET door_x == room_length \div 2 - element_width \div 2
         IN  << Line(<<door_x, 0>>, <<door_x + element_width, 0>>),
                Arc(<<door_x + element_width, 0>>, element_width, 90, 180),
                Text(DOOR, <<door_x + element_width \div 2, Scale>>, Scale \div 2, 0) >>

\* _add_element_to_drawing, lines 359-379 (0.2 = Scale/5, 0.3 = 3*Scale/10)
WindowPrims(position, room_length, room_width, element_width) ==
    IF position \in {Str(north), Str(front)}
    THEN LET window_x == room_length \div 2 - element_width \div 2
         IN  << Line(<<window_x, room_width>>, <<window_x + element_width, room_width>>),
                Line(<<window_x, room_width - Scale \div 5>>,
                     <<window_x + element_width, room_width - Scale \div 5>>),
                Text(WINDOW, <<window_x + element_width \div 2, room_width - Scale \div 2>>,
                     (3 * Scale) \div 10, 0) >>
    ELSE IF position \in {Str(south), Str(back)}
    THEN LET window_x == room_length \div 2 - element_width \div 2
         IN  << Line(<<window_x, 0>>, <<window_x + element_width, 0>>),
                Line(<<window_x, Scale \div 5>>, <<window_x + element_width, Scale \div 5>>),
                Text(WINDOW, <<window_x + element_width \div 2, Scale \div 2>>,
                     (3 * Scale) \div 10, 0) >>
    ELSE IF position \in {Str(east), Str(right)}
    THEN LET window_y == room_width \div 2 - element_width \div 2
         IN  << Line(<<room_length, window_y>>, <<room_length, window_y + element_width>>),
                Line(<<room_length - Scale \div 5, window_y>>,
                     <<room_length - Scale \div 5, window_y + element_width>>),
                Text(WINDOW, <<room_length - Scale \div 2, window_y + element_width \div 2>>,
                     (3 * Scale) \div 10, 90) >>
    ELSE IF position \in {Str(west), Str(left)}
    THEN LET window_y == room_width \div 2 - element_width \div 2
         IN  << Line(<<0, window_y>>, <<0, window_y + element_width>>),
                Line(<<Scale \div 5, window_y>>, <<Scale \div 5, window_y + element_width>>),
                Text(WINDOW, <<Scale \div 2, window_y + element_width \div 2>>,
                     (3 * Scale) \div 10, 90) >>
    ELSE <<>>

\* _add_element_to_drawing(msp, element, room_length, room_width): the
\* entities it adds, or raised when a lookup or float() throws (all of them
\* happen before the first entity is added)
AddElementToDrawing(element, room_length, room_width) ==
    IF element.t # "dict" \/ "type" \notin DOMAIN element.d THEN Skipped
    ELSE
    LET element_type == element.d["type"]
        position == DictGet(element, "position", Str(north))
        size == DictGet(element, "size",
                        Dict([width |-> Num(3 * Scale), height |-> Num(Scale)]))
    IN  IF size.t # "dict" \/ "width" \notin DOMAIN size.d THEN Skipped
        ELSE
        LET w == FloatOf(size.d["width"])
        IN  IF ~w.ok THEN Skipped
            ELSE IF element_type = Str(door)
                 THEN Drawn(DoorPrims(position, room_length, room_width, w.n))
            ELSE IF element_type = Str(window)
                 THEN Drawn(WindowPrims(position, room_length, room_width, w.n))
            ELSE Drawn(<<>>)

\* what "for element in ..." iterates over; a str yields its characters, a
\* dict its keys (each a str, so each is skipped by the handler below)
Iterable(v) == v.t \in {"list", "str", "dict"}
Iterate(v) ==
    CASE v.t = "list" -> v.items
      [] v.t = "str"  -> [i \in 1..Len(v.s) |-> Str(<<v.s[i]>>)]
      [] v.t = "dict" -> <<>>

\* (mutant) the first failing element ends the loop
RECURSIVE RenderElementsAbort(_, _, _)
RenderElementsAbort(elements, room_length, room_width) ==
    IF elements = <<>> THEN <<>>
    ELSE LET r == AddElementToDrawing(Head(elements), room_length, room_width)
         IN  IF r.raised THEN <<>>
             ELSE r.prims \o RenderElementsAbort(Tail(elements), room_length, room_width)

\* generate_dwg, lines 281-287: a failing element is skipped
RECURSIVE RenderElements(_, _, _)
RenderElements(elements, room_length, room_width) ==
    IF elements = <<>> THEN <<>>
    ELSE LET r == AddElementToDrawing(Head(elements), room_length, room_width)
         IN  (IF r.raised THEN <<>> ELSE r.prims)
             \o RenderElements(Tail(elements), room_length, room_width)

\* generate_dwg, lines 261-279: boundary and label
RoomPrims(room_label, length, width) ==
    << Polyline(<< <<0, 0>>, <<length, 0>>, <<length, width>>, <<0, width>>, <<0, 0>> >>,
                TRUE),
       Text(<<room_label, length, width>>, <<length \div 2, width \div 2>>, Scale, 0) >>

\* doc.write(...).encode('utf-8'): one record per entity of the modelspace,
\* in order; len(data) is counted in entities
DxfEncode(msp) == [i \in 1..Len(msp) |-> [entity |-> i, dxf |-> msp[i]]]

\* f"drawing_{file_id}.dxf"
Filename(file_id) == <<"drawing_", file_id, ".dxf">>

Failed(status, c, cb) ==
    [status |-> status, filename |-> <<>>, cache |-> c, current_bytes |-> cb,
     evicted |-> <<>>, data |-> <<>>]

\* (mutant) the entry is stored before the export is known to have worked
GenerateStoreEarly(data, filename, ser, c, cb, mi, mb) ==
    LET r == CacheSet(c, cb, mi, mb, filename, data,
                      [given |-> TRUE, filename |-> filename, size |-> Len(data)])
    IN  IF ~ser THEN Failed("HTTP500", r.cache, r.current_bytes)
        ELSE [status |-> "ok", filename |-> filename, cache |-> r.cache,
              current_bytes |-> r.current_bytes, evicted |-> r.evicted, data |-> data]

\* generate_dwg, lines 293-315: export (ser = FALSE: both attempts raise),
\* then file_cache.set and return the filename
GenerateStore(data, filename, ser, c, cb, mi, mb) ==
    IF ~ser THEN Failed("HTTP500", c, cb)
    ELSE LET r == CacheSet(c, cb, mi, mb, filename, data,
                           [given |-> TRUE, filename |-> filename, size |-> Len(data)])
         IN  IF r.raised THEN Failed("HTTP500", r.cache, r.current_bytes)
             ELSE [status |-> "ok", filename |-> filename, cache |-> r.cache,
                   current_bytes |-> r.current_bytes, evicted |-> r.evicted,
                   data |-> data]

\* generate_dwg(parameters): file_id is the uuid4 prefix drawn for the call
GenerateDwgResult(parameters, file_id, ser, c, cb, mi, mb) ==
    LET dims == EnsureDimensions(parameters)
    IN  IF dims.status = "HTTP400" THEN Failed("HTTP400", c, cb)
        ELSE IF dims.status # "ok" THEN Failed("HTTP500", c, cb)
        ELSE IF parameters.t # "dict" THEN Failed("HTTP500", c, cb)
        ELSE
        LET room_label == Title(PyOr(DictGet(parameters, "room_type", None), Str(Room)).s)
            elements == IF Truthy(parameters)
                        THEN DictGet(parameters, "elements", ListOf(<<>>))
                        ELSE ListOf(<<>>)
        IN  IF ~Iterable(elements) THEN Failed("HTTP500", c, cb)
            ELSE
            LET msp == RoomPrims(room_label, dims.length, dims.width)
                       \o RenderElements(Iterate(elements), dims.length, dims.width)
            IN  GenerateStore(DxfEncode(msp), Filename(file_id), ser, c, cb, mi, mb)

----------------------------------------------------------------------------
(* History: what "use" means for a key (a set or a successful get); lastOp *)
(* is the last call, hit telling whether its key was in the cache before   *)

Touch(r, k) == Append(Without(r, k), k)

RECURSIVE DropAll(_, _)
DropAll(r, ks) == IF ks = <<>> THEN r ELSE DropAll(Without(r, Head(ks)), Tail(ks))

Op(name, k, hit, data, evicted, keys) ==
    [op |-> name, key |-> k, hit |-> hit, data |-> data, evicted |-> evicted,
     keys |-> keys, status |-> "", p |-> None, ser |-> TRUE]

NoNorm == [parameters |-> None, result |-> Raised("idle")]
NoThr == <<>>

----------------------------------------------------------------------------
(* The cache driven through its own interface *)

\* __init__(max_items, max_bytes)
Init ==
    /\ max_items \in 0..MaxItemsBound
    /\ max_bytes \in 0..MaxBytesBound
    /\ cache = <<>>
    /\ current_bytes = 0
    /\ recency = <<>>
    /\ lastOp = Op("init", "", FALSE, <<>>, <<>>, <<>>)
    /\ norm = NoNorm
    /\ thr = NoThr

Set(k, data, metadata) ==
    \E r \in {CacheSet(cache, current_bytes, max_items, max_bytes, k, data, metadata)} :
        /\ ~r.raised
        /\ cache' = r.cache
        /\ current_bytes' = r.current_bytes
        /\ recency' = DropAll(Touch(recency, k), r.evicted)
        /\ lastOp' = Op("set", k, HasKey(cache, k), data, r.evicted, <<>>)
        /\ UNCHANGED <<max_items, max_bytes, aux>>

Get(k) ==
    \E r \in {CacheGet(cache, k)} :
        /\ cache' = r.cache
        /\ recency' = IF r.hit THEN Touch(recency, k) ELSE recency
        /\ lastOp' = Op("get", k, r.hit, r.data, <<>>, <<>>)
        /\ UNCHANGED <<max_items, max_bytes, current_bytes, aux>>

GetMetadata(k) ==
    \E r \in {CacheGetMetadata(cache, k)} :
        /\ cache' = r.cache
        /\ lastOp' = Op("get_metadata", k, r.hit, <<>>, <<>>, <<>>)
        /\ UNCHANGED <<max_items, max_bytes, current_bytes, recency, aux>>

List ==
    /\ lastOp' = Op("list_keys", "", FALSE, <<>>, <<>>, ListKeys(cache))
    /\ UNCHANGED <<cacheVars, aux>>

Delete(k) ==
    \E r \in {CacheDelete(cache, current_bytes, k)} :
        /\ cache' = r.cache
        /\ current_bytes' = r.current_bytes
        /\ recency' = Without(recency, k)
        /\ lastOp' = Op("delete", k, r.ok, <<>>, <<>>, <<>>)
        /\ UNCHANGED <<max_items, max_bytes, aux>>

Clear ==
    /\ cache' = CacheClear.cache
    /\ current_bytes' = CacheClear.current_bytes
    /\ recency' = <<>>
    /\ lastOp' = Op("clear", "", FALSE, <<>>, <<>>, <<>>)
    /\ UNCHANGED <<max_items, max_bytes, aux>>

Next ==
    \/ \E k \in Keys, data \in Blobs : Set(k, data, NoMeta)
    \/ \E k \in Keys : Get(k)
    \/ \E k \in Keys : GetMetadata(k)
    \/ List
    \/ \E k \in Keys : Delete(k)
    \/ Clear

Spec == Init /\ [][Next]_vars

\* the same interface on a cache with room for every key, with a byte cap
\* that either never binds or is MaxBytesBound
InitSet ==
    /\ max_items = MaxItemsBound + 1
    /\ max_bytes \in {MaxBytesBound, (MaxItemsBound + 1) * MaxDataLen}
    /\ cache = <<>>
    /\ current_bytes = 0
    /\ recency = <<>>
    /\ lastOp = Op("init", "", FALSE, <<>>, <<>>, <<>>)
    /\ norm = NoNorm
    /\ thr = NoThr

SpecSet == InitSet /\ [][Next]_vars

----------------------------------------------------------------------------
(* The processor: VoiceToDWGProcessor over its own cache *)

FileIds == {"1a", "2b", "3c"}      \* str(uuid.uuid4())[:8], three of them

\* parameter bags a caller may send
DoorEast ==
    Dict([type |-> Str(door), position |-> Str(east),
          size |-> Dict([width |-> Num(3 * Scale), height |-> Num(7 * Scale)])])
WindowNorth ==
    Dict([type |-> Str(window), position |-> Str(north),
          size |-> Dict([width |-> Str(<<"4">>), height |-> Num(3 * Scale)])])
BadElement ==
    Dict([type |-> Str(door), position |-> Str(west),
          size |-> Dict([width |-> Str(<<"w", "i", "d", "e">>)])])
DoorWest == Dict([type |-> Str(door), position |-> Str(west)])

PKitchen == Dict([room_type |-> Str(kitchen)])
PDoor ==
    Dict([room_type |-> Str(<<"K", "i", "t", "c", "h", "e", "n">>),
          dimensions |-> Dict([length |-> Num(12 * Scale), width |-> Num(10 * Scale),
                               unit |-> Str(feet)]),
          elements |-> ListOf(<<DoorEast>>)])
PMixed ==
    Dict([room_type |-> Str(bedroom),
          dimensions |-> Dict([length |-> Str(<<"1", "5", " ", "f", "t">>)]),
          elements |-> ListOf(<<WindowNorth, BadElement, DoorWest>>)])
PBadDims == Dict([dimensions |-> Dict([length |-> Num(0 - 3 * Scale)])])
PBadType == Dict([room_type |-> Num(5 * Scale)])
PNullElements == Dict([room_type |-> Str(office), elements |-> None])

ValidParams == {PKitchen, PDoor, PMixed}
ProcParams == ValidParams \cup {PBadDims, PBadType, PNullElements}

\* max_bytes, counted in entities: multiples of what one door adds
ProcByteCaps == {n * Len(DoorPrims(Str(east), 1, 1, 1)) : n \in 0..MaxBytesBound}

InitProc ==
    /\ max_items \in 0..MaxItemsBound
    /\ max_bytes \in ProcByteCaps
    /\ cache = <<>>
    /\ current_bytes = 0
    /\ recency = <<>>
    /\ lastOp = Op("init", <<>>, FALSE, <<>>, <<>>, <<>>)
    /\ norm = NoNorm
    /\ thr = NoThr

\* generate_dwg(parameters)
GenerateDwg(parameters, file_id, ser) ==
    \E r \in {GenerateDwgResult(parameters, file_id, ser, cache, current_bytes,
                               max_items, max_bytes)} :
        /\ cache' = r.cache
        /\ current_bytes' = r.current_bytes
        /\ recency' = IF r.status = "ok"
                      THEN DropAll(Touch(recency, r.filename), r.evicted)
                      ELSE recency
        /\ lastOp' = [op |-> "generate_dwg", key |-> r.filename,
                      hit |-> r.status = "ok" /\ HasKey(cache, r.filename),
                      data |-> r.data, evicted |-> r.evicted, keys |-> <<>>,
                      status |-> r.status, p |-> parameters, ser |-> ser]
        /\ UNCHANGED <<max_items, max_bytes>>

\* get_file_bytes / get_file_metadata / list_files / delete_file pass through
GetFileBytes(filename) == Get(filename)
GetFileMetadata(filename) == GetMetadata(filename)
ListFiles == List
DeleteFile(filename) == Delete(filename)

Filenames == {Filename(i) : i \in FileIds}

NextProc ==
    \/ \E p \in ProcParams, i \in FileIds, ser \in BOOLEAN :
           GenerateDwg(p, i, ser) /\ UNCHANGED aux
    \/ \E f \in Filenames : GetFileBytes(f)
    \/ \E f \in Filenames : GetFileMetadata(f)
    \/ ListFiles
    \/ \E f \in Filenames : DeleteFile(f)
    \/ Clear

SpecProc == InitProc /\ [][NextProc]_vars

----------------------------------------------------------------------------
(* Normalisation on loosely typed parameter bags *)

MaxStrLen == 3         \* numeric strings of every length 0..MaxStrLen

NumAlphabet == {"0", "1", "-", ".", " "}
NumStrings == SeqsUpTo(NumAlphabet, MaxStrLen)

Absent == [t |-> "absent"]    \* marks a key the dict does not have

\* a dict from a record, the fields marked Absent left out
MkDict(r) == Dict([k \in {x \in DOMAIN r : r[x] # Absent} |-> r[k]])

RoomTypesFew == {Absent, Str(bedroom), Str(<<"D", "e", "n">>)}
RoomTypesAll ==
    RoomTypesFew \cup
    { None, Str(<<>>), Str(kitchen), Str(<<"K", "i", "t", "c", "h", "e", "n">>),
      Str(<<"B", "E", "D", "R", "O", "O", "M">>), Str(living_space_room),
      Str(<<"L", "i", "v", "i", "n", "g", "_", "R", "o", "o", "m">>), Str(office),
      Str(bathroom), Str(room), Num(5 * Scale), Num(0), ListOf(<<>>), Bool(TRUE) }

AxisFew == {Absent, None, Num(3 * Scale), Num(0), Str(<<"w", "i", "d", "e">>)}
AxisAll ==
    AxisFew \cup
    { Num(0 - Scale), Num((5 * Scale) \div 2), Bool(TRUE), Bool(FALSE), ListOf(<<>>),
      Str(<<"1", "2", " ", "f", "t">>), Str(<<"1", "5", " ", "f", "t">>),
      Str(<<"1", "2", ".", "5">>), Str(<<"a", "-", "3", "x", "4">>) }
    \cup {Str(x) : x \in NumStrings}

UnitsFew == {Absent, Str(meters)}
UnitsAll == UnitsFew \cup {None, Str(feet), Str(<<>>), Num(5 * Scale)}

DimsDict(l, w, u) == MkDict([length |-> l, width |-> w, unit |-> u])

DimsOdd ==
    {Absent, None, Dict(<<>>), Str(<<"1", "2", "x", "1", "0">>), ListOf(<<Num(Scale)>>),
     Num(0), Str(<<>>), DimsDict(Num(3 * Scale), Absent, Absent),
     DimsDict(Str(<<"1", "5", " ", "f", "t">>), Absent, Absent),
     DimsDict(Num(0), Num(3 * Scale), Str(meters))}
DimsFew == {DimsDict(l, w, u) : l \in AxisFew, w \in AxisFew, u \in UnitsAll}
DimsAll ==
    {DimsDict(l, w, Absent) : l \in AxisAll, w \in AxisFew}
    \cup {DimsDict(l, w, Absent) : l \in AxisFew, w \in AxisAll}

ElementsAll ==
    {Absent, None, ListOf(<<>>), ListOf(<<DoorEast>>), Str(door), Num(5 * Scale)}

Bag(rt, d, el, notes) ==
    MkDict([room_type |-> rt, dimensions |-> d, elements |-> el,
            additional_notes |-> notes])

NormInputs ==
    {Bag(rt, d, el, n) : rt \in RoomTypesAll, d \in DimsOdd, el \in ElementsAll,
                         n \in {Absent, Str(<<"x">>)}}
    \cup {Bag(rt, d, Absent, Absent) : rt \in RoomTypesAll, d \in DimsFew}
    \cup {Bag(rt, d, Absent, Absent) : rt \in RoomTypesFew, d \in DimsAll}

InitNorm ==
    /\ max_items = MaxItemsBound
    /\ max_bytes = MaxBytesBound
    /\ cache = <<>>
    /\ current_bytes = 0
    /\ recency = <<>>
    /\ lastOp = Op("init", <<>>, FALSE, <<>>, <<>>, <<>>)
    /\ norm \in {[parameters |-> p, result |-> Raised("idle")] : p \in NormInputs}
    /\ thr = NoThr

\* a direct call of _ensure_dimensions(parameters)
EnsureDimensionsCall ==
    /\ lastOp.op = "init"
    /\ norm' = [norm EXCEPT !.result = EnsureDimensions(norm.parameters)]
    /\ lastOp' = [Op("_ensure_dimensions", <<>>, FALSE, <<>>, <<>>, <<>>)
                     EXCEPT !.p = norm.parameters]
    /\ UNCHANGED <<cacheVars, thr>>

\* generate_dwg(parameters); norm.result keeps what line 252 gave
GenerateDwgCall(file_id) ==
    /\ lastOp.op = "init"
    /\ GenerateDwg(norm.parameters, file_id, TRUE)
    /\ norm' = [norm EXCEPT !.result = EnsureDimensions(norm.parameters)]
    /\ UNCHANGED thr

NextNorm ==
    \/ EnsureDimensionsCall
    \/ \E i \in {"1a"} : GenerateDwgCall(i)

SpecNorm == InitNorm /\ [][NextNorm]_vars

----------------------------------------------------------------------------
(* Rendering of element lists                                               *)

MaxElements == 2       \* elements of one list, when drawn from ElemFew

wall == <<"w", "a", "l", "l">>
fixture == <<"f", "i", "x", "t", "u", "r", "e">>

ElemTypes ==
    {Absent, None, Str(door), Str(window), Str(wall), Str(fixture),
     Str(<<"s", "o", "f", "a">>)}

NamedPositions ==
    {Str(north), Str(front), Str(south), Str(back), Str(east), Str(right),
     Str(west), Str(left)}

ElemPositions ==
    NamedPositions \cup
    {Absent, None, Str(<<"c", "e", "n", "t", "e", "r">>), Str(<<"N", "o", "r", "t", "h">>)}

SizeOf(w) == MkDict([width |-> w, height |-> Num(Scale)])

ElemSizes ==
    {Absent, None, Str(<<"b", "i", "g">>), SizeOf(Absent), SizeOf(None),
     SizeOf(Num(3 * Scale)), SizeOf(Num(4 * Scale)), SizeOf(Str(<<"4">>)),
     SizeOf(Str(<<"w", "i", "d", "e">>))}

Element(type, position, size) ==
    MkDict([type |-> type, position |-> position, size |-> size])

ElemAll ==
    {Element(t, p, z) : t \in ElemTypes, p \in ElemPositions, z \in ElemSizes}
    \cup {None, Str(door), ListOf(<<Str(door)>>), Num(Scale)}

ElemFew ==
    {DoorEast, WindowNorth, BadElement, DoorWest, Str(door),
     Element(Str(wall), Str(north), SizeOf(Num(3 * Scale))),
     Element(Absent, Str(east), Absent),
     Element(Str(door), Str(east), SizeOf(Num(4 * Scale)))}

ElementLists ==
    {<<e>> : e \in ElemAll} \cup SeqsUpTo(ElemFew, MaxElements)

\* rooms: 12 x 10, 3 x 12 (narrower than a 4-wide door) and the kitchen default
RenderDims ==
    {Absent, DimsDict(Num(12 * Scale), Num(10 * Scale), Absent),
     DimsDict(Num(3 * Scale), Num(12 * Scale), Absent)}

RenderInputs ==
    {Bag(Str(kitchen), d, ListOf(els), Absent) : d \in RenderDims, els \in ElementLists}

\* a byte cap every drawing of RenderInputs fits under
RenderByteCap == Len(RoomPrims(Room, 1, 1)) + MaxElements * Len(DoorPrims(Str(east), 1, 1, 1))

InitRender ==
    /\ max_items = MaxItemsBound
    /\ max_bytes = RenderByteCap
    /\ cache = <<>>
    /\ current_bytes = 0
    /\ recency = <<>>
    /\ lastOp = Op("init", <<>>, FALSE, <<>>, <<>>, <<>>)
    /\ norm \in {[parameters |-> p, result |-> Raised("idle")] : p \in RenderInputs}
    /\ thr = NoThr

\* generate_dwg(parameters) on the bag of this run, any number of times
RenderCall(file_id) ==
    /\ GenerateDwg(norm.parameters, file_id, TRUE)
    /\ UNCHANGED aux

NextRender ==
    \/ \E i \in FileIds : RenderCall(i)
    \/ \E f \in Filenames : GetFileBytes(f)

SpecRender == InitRender /\ [][NextRender]_vars

----------------------------------------------------------------------------
(* The HTTP handlers running concurrently (main.py).  The async handlers    *)
(* generate_dwg and download_dwg run on the event-loop thread, one at a    *)
(* time; the sync handlers list_dwgs and delete_dwg run on worker threads. *)
(* No lock guards the cache, so a thread switch can fall between any two   *)
(* dict operations and between the read and the write of                   *)
(* "self.current_bytes += n".  pc names the file_cache.py line about to    *)
(* run.                                                                     *)

MaxConcOps == 4        \* requests started in one run

Workers == {"w1", "w2"}
Threads == {"loop"} \cup Workers

ConcParams == {PKitchen, PDoor, PBadDims}

IdleThreads ==
    [pc |-> [t \in Threads |-> "idle"],
     key |-> [t \in Threads |-> <<>>],
     data |-> <<>>,                        \* the bytes the loop thread is storing
     tmp |-> [t \in Threads |-> 0],        \* current_bytes as loaded by the thread
     old |-> [t \in Threads |-> 0],        \* old_bytes / len(data) / len(entry[0])
     err |-> [t \in Threads |-> ""],       \* how the thread's last request ended
     ops |-> 0]

InitConc ==
    /\ max_items = MaxItemsBound
    /\ max_bytes \in ProcByteCaps \ {0}
    /\ cache = <<>>
    /\ current_bytes = 0
    /\ recency = <<>>
    /\ lastOp = Op("init", <<>>, FALSE, <<>>, <<>>, <<>>)
    /\ norm = NoNorm
    /\ thr = IdleThreads

Frame == UNCHANGED <<max_items, max_bytes, recency, lastOp, norm>>

Goto(t, pc) == [thr EXCEPT !.pc[t] = pc]
Finish(t, how) == [thr EXCEPT !.pc[t] = "idle", !.err[t] = how]

\* POST /generate-dwg up to the call of file_cache.set (main.py 46-52,
\* dwg_processor.py 250-314): nothing shared is touched before set
StartGenerate(p, file_id) ==
    /\ thr.pc["loop"] = "idle" /\ thr.ops < MaxConcOps
    /\ \E r \in {GenerateDwgResult(p, file_id, TRUE, <<>>, 0, 1, 0)} :
          thr' = IF r.status = "ok"
                 THEN [thr EXCEPT !.pc["loop"] = "set17", !.key["loop"] = Filename(file_id),
                                  !.data = r.data, !.err["loop"] = "", !.ops = @ + 1]
                 ELSE [thr EXCEPT !.err["loop"] = r.status, !.ops = @ + 1]
    /\ UNCHANGED <<cache, current_bytes>> /\ Frame

\* file_cache.py 17: if key in self._cache
Set17 ==
    /\ thr.pc["loop"] = "set17"
    /\ thr' = Goto("loop", IF HasKey(cache, thr.key["loop"]) THEN "set18" ELSE "set21")
    /\ UNCHANGED <<cache, current_bytes>> /\ Frame

\* 18: old_bytes = len(self._cache[key][0])
Set18 ==
    /\ thr.pc["loop"] = "set18"
    /\ thr' = IF HasKey(cache, thr.key["loop"])
              THEN [Goto("loop", "set19r") EXCEPT
                        !.old["loop"] = Len(EntryOf(cache, thr.key["loop"]).data)]
              ELSE Finish("loop", "KeyError")
    /\ UNCHANGED <<cache, current_bytes>> /\ Frame

\* 19: self.current_bytes -= old_bytes (the load)
Set19r ==
    /\ thr.pc["loop"] = "set19r"
    /\ thr' = [Goto("loop", "set19w") EXCEPT !.tmp["loop"] = current_bytes]
    /\ UNCHANGED <<cache, current_bytes>> /\ Frame

\* 19: (the store)
Set19w ==
    /\ thr.pc["loop"] = "set19w"
    /\ current_bytes' = thr.tmp["loop"] - thr.old["loop"]
    /\ thr' = Goto("loop", "set20")
    /\ UNCHANGED cache /\ Frame

\* 20: del self._cache[key]
Set20 ==
    /\ thr.pc["loop"] = "set20"
    /\ IF HasKey(cache, thr.key["loop"])
       THEN cache' = DictRemove(cache, thr.key["loop"]) /\ thr' = Goto("loop", "set21")
       ELSE cache' = cache /\ thr' = Finish("loop", "KeyError")
    /\ UNCHANGED current_bytes /\ Frame

\* 21: self._cache[key] = (data, metadata): a new key goes last, an
\* existing key keeps its place
Set21 ==
    /\ thr.pc["loop"] = "set21"
    /\ LET k == thr.key["loop"]
           e == [key |-> k, data |-> thr.data,
                 meta |-> [given |-> TRUE, filename |-> k, size |-> Len(thr.data)]]
       IN  cache' = IF HasKey(cache, k)
                    THEN [cache EXCEPT ![IndexOf(cache, k)] = e]
                    ELSE Append(cache, e)
    /\ thr' = Goto("loop", "set22r")
    /\ UNCHANGED current_bytes /\ Frame

\* 22: self.current_bytes += len(data) (the load)
Set22r ==
    /\ thr.pc["loop"] = "set22r"
    /\ thr' = [Goto("loop", "set22w") EXCEPT !.tmp["loop"] = current_bytes]
    /\ UNCHANGED <<cache, current_bytes>> /\ Frame

\* 22: (the store)
Set22w ==
    /\ thr.pc["loop"] = "set22w"
    /\ current_bytes' = thr.tmp["loop"] + Len(thr.data)
    /\ thr' = Goto("loop", "set23")
    /\ UNCHANGED cache /\ Frame

\* 23: self._cache.move_to_end(key, last=True)
Set23 ==
    /\ thr.pc["loop"] = "set23"
    /\ IF HasKey(cache, thr.key["loop"])
       THEN cache' = MoveToEnd(cache, thr.key["loop"]) /\ thr' = Goto("loop", "evict57")
       ELSE cache' = cache /\ thr' = Finish("loop", "KeyError")
    /\ UNCHANGED current_bytes /\ Frame

\* 57: while (len(self._cache) > self.max_items) or (self.current_bytes > self.max_bytes)
Evict57 ==
    /\ thr.pc["loop"] = "evict57"
    /\ thr' = IF (Len(cache) > max_items) \/ (current_bytes > max_bytes)
              THEN Goto("loop", "evict59")
              ELSE Finish("loop", "ok")
    /\ UNCHANGED <<cache, current_bytes>> /\ Frame

\* 59: k, (data, _) = self._cache.popitem(last=False)
Evict59 ==
    /\ thr.pc["loop"] = "evict59"
    /\ IF cache # <<>>
       THEN /\ cache' = Tail(cache)
            /\ thr' = [Goto("loop", "evict60r") EXCEPT !.old["loop"] = Len(Head(cache).data)]
       ELSE cache' = cache /\ thr' = Finish("loop", "KeyError")
    /\ UNCHANGED current_bytes /\ Frame

\* 60: self.current_bytes -= len(data) (the load)
Evict60r ==
    /\ thr.pc["loop"] = "evict60r"
    /\ thr' = [Goto("loop", "evict60w") EXCEPT !.tmp["loop"] = current_bytes]
    /\ UNCHANGED <<cache, current_bytes>> /\ Frame

\* 60: (the store), then back to the loop test
Evict60w ==
    /\ thr.pc["loop"] = "evict60w"
    /\ current_bytes' = thr.tmp["loop"] - thr.old["loop"]
    /\ thr' = Goto("loop", "evict57")
    /\ UNCHANGED cache /\ Frame

\* GET /download-dwg/{filename} (main.py 56-65); file_cache.py 27-29:
\* entry = self._cache.get(key); a miss is the handler's 404
StartDownload(filename) ==
    /\ thr.pc["loop"] = "idle" /\ thr.ops < MaxConcOps
    /\ thr' = IF HasKey(cache, filename)
              THEN [thr EXCEPT !.pc["loop"] = "get32", !.key["loop"] = filename,
                               !.err["loop"] = "", !.ops = @ + 1]
              ELSE [thr EXCEPT !.err["loop"] = "HTTP404", !.ops = @ + 1]
    /\ UNCHANGED <<cache, current_bytes>> /\ Frame

\* 32: self._cache.move_to_end(key, last=True)
Get32 ==
    /\ thr.pc["loop"] = "get32"
    /\ IF HasKey(cache, thr.key["loop"])
       THEN cache' = MoveToEnd(cache, thr.key["loop"]) /\ thr' = Finish("loop", "ok")
       ELSE cache' = cache /\ thr' = Finish("loop", "KeyError")
    /\ UNCHANGED current_bytes /\ Frame

\* GET /list-dwgs (main.py 69-72): list(reversed(self._cache.keys())) is one
\* C-level call
ListDwgs(t) ==
    /\ thr.pc[t] = "idle" /\ thr.ops < MaxConcOps
    /\ thr' = [thr EXCEPT !.err[t] = "ok", !.ops = @ + 1]
    /\ UNCHANGED <<cache, current_bytes>> /\ Frame

\* DELETE /delete-dwg/{filename} (main.py 75-80); file_cache.py 46:
\* entry = self._cache.pop(key, None); a miss is the handler's 404
StartDelete(t, filename) ==
    /\ thr.pc[t] = "idle" /\ thr.ops < MaxConcOps
    /\ IF HasKey(cache, filename)
       THEN /\ cache' = DictRemove(cache, filename)
            /\ thr' = [thr EXCEPT !.pc[t] = "del48r", !.key[t] = filename,
                                  !.old[t] = Len(EntryOf(cache, filename).data),
                                  !.err[t] = "", !.ops = @ + 1]
       ELSE /\ cache' = cache
            /\ thr' = [thr EXCEPT !.err[t] = "HTTP404", !.ops = @ + 1]
    /\ UNCHANGED current_bytes /\ Frame

\* 48: self.current_bytes -= len(entry[0]) (the load)
Del48r(t) ==
    /\ thr.pc[t] = "del48r"
    /\ thr' = [Goto(t, "del48w") EXCEPT !.tmp[t] = current_bytes]
    /\ UNCHANGED <<cache, current_bytes>> /\ Frame

\* 48: (the store)
Del48w(t) ==
    /\ thr.pc[t] = "del48w"
    /\ current_bytes' = thr.tmp[t] - thr.old[t]
    /\ thr' = Finish(t, "ok")
    /\ UNCHANGED cache /\ Frame

NextConc ==
    \/ \E p \in ConcParams, i \in FileIds : StartGenerate(p, i)
    \/ Set17 \/ Set18 \/ Set19r \/ Set19w \/ Set20 \/ Set21 \/ Set22r \/ Set22w \/ Set23
    \/ Evict57 \/ Evict59 \/ Evict60r \/ Evict60w
    \/ \E f \in Filenames : StartDownload(f)
    \/ Get32
    \/ \E t \in Workers : ListDwgs(t)
    \/ \E t \in Workers, f \in Filenames : StartDelete(t, f)
    \/ \E t \in Workers : Del48r(t)
    \/ \E t \in Workers : Del48w(t)

SpecConc == InitConc /\ [][NextConc]_vars

----------------------------------------------------------------------------
(* Claims about the cache *)

\* C1: right after a set call returns, the number of entries is at most
\* max_items and current_bytes is at most max_bytes, unless the item just
\* inserted is by itself larger than max_bytes.
EvictionInvariant ==
    lastOp.op = "set" =>
        \/ Len(cache) <= max_items /\ current_bytes <= max_bytes
        \/ Len(lastOp.data) > max_bytes

\* a set of an item within max_bytes that had to evict twice to fit
EvictionWitness ==
    /\ lastOp.op = "set"
    /\ Len(lastOp.evicted) = 2
    /\ cache # <<>>
    /\ Len(lastOp.data) <= max_bytes

\* C2: in every reachable state current_bytes is exactly the sum of
\* len(data) over the entries in the cache.
ByteAccounting == current_bytes = SumBytes(cache)

\* a set on an existing key that changed its size and evicted another entry
ByteAccountingWitness ==
    /\ lastOp.op = "set"
    /\ HasKey(cache, lastOp.key)
    /\ lastOp.key \notin {recency[i] : i \in 1..Len(recency) - 1}
    /\ Len(lastOp.evicted) = 1
    /\ Len(cache) = 2
    /\ current_bytes = 3

\* C3: every entry a set call evicts is, at that moment, the live entry
\* whose last set or successful get is the oldest (get_metadata and
\* list_keys are no use of a key).
LRUEviction ==
    [][lastOp'.op = "set" =>
          LET r0 == Touch(recency, lastOp'.key)
              ev == lastOp'.evicted
          IN  /\ Len(ev) <= Len(r0)
              /\ \A i \in 1..Len(ev) : ev[i] = r0[i]]_vars

\* two live keys in a full cache, the older-inserted one promoted by a get
\* (it is the most recent in the cache although it was set first), then a
\* set evicted exactly one entry
LRUEvictionWitness ==
    /\ lastOp.op = "set"
    /\ max_items = 2
    /\ Len(lastOp.evicted) = 1
    /\ Len(cache) = 2
    /\ lastOp.evicted[1] # lastOp.key

MetadataReadOnly ==
    [][lastOp'.op = "get_metadata" =>
          /\ cache' = cache
          /\ ListKeys(cache') = ListKeys(cache)
          /\ current_bytes' = current_bytes
          /\ recency' = recency]_vars

\* a metadata hit on the least recently used of two entries
MetadataWitness ==
    /\ lastOp.op = "get_metadata"
    /\ lastOp.hit
    /\ Len(cache) = 2
    /\ cache[1].key = lastOp.key

----------------------------------------------------------------------------
(* Claims about the processor *)

\* get_file_bytes(k) as it would answer in the current state
Retrievable(c, k, data) == CacheGet(c, k).hit /\ CacheGet(c, k).data = data

\* C6 as stated: whenever generate_dwg has returned a key, get_file_bytes on
\* that key returns the non-empty bytes of the drawing, whatever max_items
\* and max_bytes are.
GeneratedKeyRetrievable ==
    (lastOp.op = "generate_dwg" /\ lastOp.status = "ok") =>
        /\ lastOp.data # <<>>
        /\ Retrievable(cache, lastOp.key, lastOp.data)

\* a generate_dwg that returned a key of a non-empty drawing the cache,
\* although it may hold an item, no longer has: the drawing is larger than
\* max_bytes and the set that stored it evicted it
GeneratedKeyLost ==
    /\ lastOp.op = "generate_dwg"
    /\ lastOp.status = "ok"
    /\ lastOp.data # <<>>
    /\ max_items >= 1
    /\ ~HasKey(cache, lastOp.key)
    /\ ~CacheGet(cache, lastOp.key).hit

\* C7: a generate_dwg call that fails (invalid dimensions, or the export to
\* memory failing) leaves entries, order and current_bytes as they were, and
\* a valid call right after a failed one succeeds.
FailedGenerateLeavesCache ==
    [][/\ (lastOp'.op = "generate_dwg" /\ lastOp'.status # "ok") =>
              /\ cache' = cache
              /\ ListKeys(cache') = ListKeys(cache)
              /\ current_bytes' = current_bytes
       /\ (/\ lastOp.op = "generate_dwg" /\ lastOp.status # "ok"
           /\ lastOp'.op = "generate_dwg" /\ lastOp'.p \in ValidParams /\ lastOp'.ser) =>
              /\ lastOp'.status = "ok"
              /\ lastOp'.key \in Filenames]_vars

\* the export failed for a valid bag while a drawing was cached
FailedGenerateWitness ==
    /\ lastOp.op = "generate_dwg"
    /\ lastOp.status = "HTTP500"
    /\ lastOp.p \in ValidParams
    /\ ~lastOp.ser
    /\ cache # <<>>

----------------------------------------------------------------------------
(* Claims about normalisation *)

\* the table of the claim: defaults by lower-cased room type, in feet
ClaimedDefault(room_type) ==
    CASE room_type = kitchen -> <<12 * Scale, 10 * Scale>>
      [] room_type = bedroom -> <<15 * Scale, 12 * Scale>>
      [] room_type \in {living_space_room, living_room} -> <<16 * Scale, 14 * Scale>>
      [] room_type = office -> <<12 * Scale, 10 * Scale>>
      [] room_type = bathroom -> <<8 * Scale, 6 * Scale>>
      [] OTHER -> <<10 * Scale, 10 * Scale>>

\* a value of one axis as the claim resolves it
ClaimedAxis(raw, default) ==
    CASE raw.t \in {"num", "bool"} -> FloatOf(raw).n
      [] raw.t = "str" /\ RegexNumber(raw.s) # None -> RegexNumber(raw.s).n
      [] OTHER -> default

\* room_type is a string or missing, dimensions is a map or missing
WellTyped(p) ==
    /\ p.t = "dict"
    /\ DictGet(p, "room_type", None).t \in {"none", "str"}
    /\ DictGet(p, "dimensions", None).t \in {"none", "dict"}

\* C9: _ensure_dimensions resolves each axis by itself (a number as is, a
\* string to its first signed decimal number, anything else to the default
\* of the lower-cased room type for that axis), fails with the 400 error
\* exactly when a resolved axis is <= 0 and otherwise returns the two values,
\* in feet when no unit is given.
DimensionsResolved ==
    (norm.result.status # "idle" /\ WellTyped(norm.parameters)) =>
        LET p == norm.parameters
            rt == DictGet(p, "room_type", None)
            d == DictGet(p, "dimensions", None)
            default == ClaimedDefault(IF rt.t = "str" THEN Lower(rt.s) ELSE <<>>)
            length == ClaimedAxis(IF d.t = "dict" THEN DictGet(d, "length", None) ELSE None,
                                  default[1])
            width == ClaimedAxis(IF d.t = "dict" THEN DictGet(d, "width", None) ELSE None,
                                 default[2])
        IN  /\ RegexNumber(<<"1", "5", " ", "f", "t">>) = Num(15 * Scale)
            /\ RegexNumber(<<"a", "-", "3", "x", "4">>) = Num(0 - 3 * Scale)
            /\ RegexNumber(<<"1", "2", ".", "5">>) = Num((25 * Scale) \div 2)
            /\ IF length <= 0 \/ width <= 0
               THEN norm.result.status = "HTTP400"
               ELSE /\ norm.result.status = "ok"
                    /\ norm.result.length = length
                    /\ norm.result.width = width
                    /\ (d.t = "dict" /\ Truthy(DictGet(d, "unit", None)))
                           \/ norm.result.unit = feet

\* an explicit length kept next to a defaulted width (bedroom: 12)
DimensionsWitness ==
    /\ norm.result.status = "ok"
    /\ norm.parameters =
           Bag(Str(<<"B", "E", "D", "R", "O", "O", "M">>),
               DimsDict(Num(3 * Scale), Absent, Absent), Absent, Absent)
    /\ norm.result.length = 3 * Scale
    /\ norm.result.width = 12 * Scale

\* C10 as stated: whatever is absent, null, wrongly typed or extra in the
\* bag, normalisation inside generate_dwg ends with a room of positive
\* length and width or with the invalid-dimensions error (HTTP 400).
NormalizationTotal ==
    lastOp.op = "generate_dwg" =>
        \/ norm.result.status = "HTTP400" /\ lastOp.status = "HTTP400"
        \/ norm.result.status = "ok" /\ norm.result.length > 0 /\ norm.result.width > 0

\* a bag whose room_type is a number: .lower() raises AttributeError, which
\* generate_dwg turns into the HTTP 500 "DWG generation failed"
NormalizationCrash ==
    /\ lastOp.op = "generate_dwg"
    /\ lastOp.status = "HTTP500"
    /\ norm.result.status = "AttributeError"
    /\ DictGet(norm.parameters, "room_type", None).t = "num"

----------------------------------------------------------------------------
(* Claims about concurrent requests *)

InFlight == {t \in Threads : thr.pc[t] # "idle"}

\* no request ended in a KeyError raised inside the cache
NoRequestFailed == \A t \in Threads : thr.err[t] # "KeyError"

\* with no request under way, current_bytes is the sum of the stored sizes
QuiescentAccounting == (InFlight = {}) => current_bytes = SumBytes(cache)

\* C8 as stated: with the handlers running concurrently, in every
\* interleaving current_bytes equals the sum of the stored entry sizes once
\* no call is under way, and no request fails because of a concurrent one.
ConcurrentCacheSafe ==
    /\ NoRequestFailed
    /\ QuiescentAccounting

\* a request on the event loop that ended in KeyError because a worker thread
\* deleted its key (set line 23 or get line 32), with no request under way
\* and a current_bytes that no longer matches the (empty) cache
RacedRequests ==
    /\ InFlight = {}
    /\ thr.err["loop"] = "KeyError"
    /\ thr.err["w1"] = "ok"
    /\ thr.err["w2"] = "ok"
    /\ cache = <<>>
    /\ current_bytes # 0

----------------------------------------------------------------------------
(* Claims about rendering *)

\* the element has no type, is not a map, or has a size without a width that
\* float() accepts
Malformed(e) ==
    \/ e.t # "dict"
    \/ "type" \notin DOMAIN e.d
    \/ /\ "size" \in DOMAIN e.d
       /\ \/ e.d["size"].t # "dict"
          \/ "width" \notin DOMAIN e.d["size"].d
          \/ ~FloatOf(e.d["size"].d["width"]).ok

WidthOf(e) ==
    IF "size" \in DOMAIN e.d THEN FloatOf(e.d["size"].d["width"]).n ELSE 3 * Scale

PositionOf(e) == IF "position" \in DOMAIN e.d THEN e.d["position"] ELSE Str(north)

\* what one element contributes according to the claim
RECURSIVE ClaimedElements(_, _, _)
ClaimedElements(els, L, W) ==
    IF els = <<>> THEN <<>>
    ELSE LET e == Head(els)
             own == IF Malformed(e) THEN <<>>
                    ELSE IF e.d["type"] = Str(door)
                    THEN DoorPrims(PositionOf(e), L, W, WidthOf(e))
                    ELSE IF e.d["type"] = Str(window)
                    THEN WindowPrims(PositionOf(e), L, W, WidthOf(e))
                    ELSE <<>>
         IN  own \o ClaimedElements(Tail(els), L, W)

\* the entities of the stored drawing
Entities(data) == [i \in 1..Len(data) |-> data[i].dxf]

\* C11: for every element list generate_dwg succeeds, the drawing is the
\* boundary polyline, then the room label, then the primitives of the
\* well-formed doors and windows in input order, malformed elements and
\* other kinds adding nothing, and the drawing is stored under the key.
ElementsRendered ==
    lastOp.op = "generate_dwg" =>
        LET dims == EnsureDimensions(lastOp.p)
            msp == Entities(lastOp.data)
            els == lastOp.p.d["elements"].items
        IN  /\ lastOp.status = "ok"
            /\ msp[1].kind = "LWPOLYLINE"
            /\ msp[2].kind = "TEXT"
            /\ SubSeq(msp, 1, 2) = RoomPrims(Title(kitchen), dims.length, dims.width)
            /\ SubSeq(msp, 3, Len(msp)) = ClaimedElements(els, dims.length, dims.width)
            /\ HasKey(cache, lastOp.key)
            /\ EntryOf(cache, lastOp.key).data = lastOp.data

\* a door whose size is unparsable, then a good door: the second is drawn
ElementsRenderedWitness ==
    /\ lastOp.op = "generate_dwg"
    /\ lastOp.p.d["elements"].items = <<BadElement, DoorEast>>
    /\ Len(lastOp.data) = 5
    /\ HasKey(cache, lastOp.key)

\* the wall the claim assigns to a position
ClaimedWall(e) ==
    LET p == IF "position" \in DOMAIN e.d THEN e.d["position"] ELSE Absent
    IN  CASE p \in {Str(south), Str(back)} -> "south"
          [] p \in {Str(east), Str(right)} -> "east"
          [] p \in {Str(west), Str(left)} -> "west"
          [] OTHER -> "north"

\* the segment lies on the named wall of an L x W room
OnWall(line, w, L, W) ==
    /\ line.kind = "LINE"
    /\ CASE w = "north" -> line.start[2] = W /\ line.end[2] = W
         [] w = "south" -> line.start[2] = 0 /\ line.end[2] = 0
         [] w = "east"  -> line.start[1] = L /\ line.end[1] = L
         [] w = "west"  -> line.start[1] = 0 /\ line.end[1] = 0

\* a list of one well-formed door or window
OneOpening(p) ==
    /\ Len(p.d["elements"].items) = 1
    /\ ~Malformed(p.d["elements"].items[1])
    /\ p.d["elements"].items[1].d["type"] \in {Str(door), Str(window)}

\* C12: a door or window is drawn on the north wall for north / front, the
\* south wall for south / back, the east wall for east / right, the west
\* wall for west / left, and on the north wall when its position is missing
\* or anything else.
WallFollowsPosition ==
    (lastOp.op = "generate_dwg" /\ OneOpening(lastOp.p)) =>
        LET dims == EnsureDimensions(lastOp.p)
            msp == Entities(lastOp.data)
            e == lastOp.p.d["elements"].items[1]
        IN  /\ Len(msp) > 2
            /\ OnWall(msp[3], ClaimedWall(e), dims.length, dims.width)

\* a door whose position is "North" (capitalised) drawn on the south wall
DoorOnSouthWall ==
    /\ lastOp.op = "generate_dwg"
    /\ OneOpening(lastOp.p)
    /\ lastOp.p.d["elements"].items[1].d["type"] = Str(door)
    /\ PositionOf(lastOp.p.d["elements"].items[1]) = Str(<<"N", "o", "r", "t", "h">>)
    /\ Len(lastOp.data) > 2
    /\ OnWall(lastOp.data[3].dxf, "south", EnsureDimensions(lastOp.p).length,
              EnsureDimensions(lastOp.p).width)

\* what the code does with a position: the eight names and a missing key as
\* claimed; any other value puts a door on the south wall and leaves a
\* window out of the drawing
WallAsCoded ==
    (lastOp.op = "generate_dwg" /\ OneOpening(lastOp.p)) =>
        LET dims == EnsureDimensions(lastOp.p)
            msp == Entities(lastOp.data)
            e == lastOp.p.d["elements"].items[1]
            named == PositionOf(e) \in NamedPositions
        IN  IF named
            THEN Len(msp) > 2 /\ OnWall(msp[3], ClaimedWall(e), dims.length, dims.width)
            ELSE IF e.d["type"] = Str(door)
            THEN Len(msp) > 2 /\ OnWall(msp[3], "south", dims.length, dims.width)
            ELSE Len(msp) = 2

\* every element is a well-formed door on a wall the eight names (or a
\* missing position) select
OnlyDoors(p) ==
    /\ p.d["elements"].items # <<>>
    /\ \A i \in 1..Len(p.d["elements"].items) :
          LET e == p.d["elements"].items[i]
          IN  /\ ~Malformed(e)
              /\ e.d["type"] = Str(door)
              /\ PositionOf(e) \in NamedPositions

\* the three entities of a door on wall `side`, as the claim gives them
DoorAsClaimed(line, arc, label, side, w, L, W) ==
    LET axis == IF side \in {"east", "west"} THEN 2 ELSE 1     \* runs along y or x
        span == IF side \in {"east", "west"} THEN W ELSE L
        mid == <<(line.start[1] + line.end[1]) \div 2, (line.start[2] + line.end[2]) \div 2>>
    IN  /\ OnWall(line, side, L, W)
        /\ line.end[axis] - line.start[axis] = w
        /\ line.start[axis] + line.end[axis] = span
        /\ arc.kind = "ARC"
        /\ arc.radius = w
        /\ arc.center \in {line.start, line.end}
        /\ <<arc.start_angle, arc.end_angle>> =
              CASE side = "east" -> <<180, 270>>
                [] side = "west" -> <<0, 90>>
                [] side = "north" -> <<270, 360>>
                [] side = "south" -> <<90, 180>>
        /\ label.kind = "TEXT"
        /\ label.content = DOOR
        /\ label.insert =
              CASE side = "east" -> <<L - Scale, mid[2]>>
                [] side = "west" -> <<Scale, mid[2]>>
                [] side = "north" -> <<mid[1], W - Scale>>
                [] side = "south" -> <<mid[1], Scale>>

\* the example: 12 x 10, east, width 3
DoorExample(p, msp) ==
    (/\ EnsureDimensions(p).length = 12 * Scale
     /\ EnsureDimensions(p).width = 10 * Scale
     /\ p.d["elements"].items[1] = DoorEast) =>
        /\ msp[3] = Line(<<12 * Scale, (7 * Scale) \div 2>>, <<12 * Scale, (13 * Scale) \div 2>>)
        /\ msp[4].center = <<12 * Scale, (7 * Scale) \div 2>>
        /\ msp[4].radius = 3 * Scale

\* C13: a door of width w is an opening segment of length w lying on its
\* wall and centred on it, whatever else is on that wall, a swing arc of
\* radius w centred at an end of the opening (180-270 east, 0-90 west,
\* 270-360 north, 90-180 south) and a DOOR label one unit inside the wall at
\* the middle of the opening; 12 x 10, east, 3 gives (12, 3.5)-(12, 6.5) and an
\* arc centred at (12, 3.5); a repeated call gives the same primitives.
DoorGeometry ==
    /\ [](  (lastOp.op = "generate_dwg" /\ OnlyDoors(lastOp.p)) =>
               LET dims == EnsureDimensions(lastOp.p)
                   msp == Entities(lastOp.data)
                   els == lastOp.p.d["elements"].items
               IN  /\ Len(msp) = 2 + 3 * Len(els)
                   /\ \A i \in 1..Len(els) :
                         DoorAsClaimed(msp[3 * i], msp[3 * i + 1], msp[3 * i + 2],
                                       ClaimedWall(els[i]), WidthOf(els[i]),
                                       dims.length, dims.width)
                   /\ DoorExample(lastOp.p, msp) )
    /\ [][ (lastOp.op = "generate_dwg" /\ lastOp'.op = "generate_dwg") =>
               lastOp'.data = lastOp.data ]_vars

\* two doors on the east wall of the 12 x 10 room, drawn a second time (the
\* first drawing made room for it)
DoorGeometryWitness ==
    /\ lastOp.op = "generate_dwg"
    /\ lastOp.p.d["elements"].items =
           <<DoorEast, Element(Str(door), Str(east), SizeOf(Num(4 * Scale)))>>
    /\ EnsureDimensions(lastOp.p).length = 12 * Scale
    /\ lastOp.evicted = <<Filename("1a")>>
    /\ Len(lastOp.data) = 8

----------------------------------------------------------------------------
(* Claims about keys *)

\* C14: the key a generate_dwg call returns is not a key of the cache at the
\* time of the call, so no cached drawing has its bytes replaced by the
\* call.
GeneratedKeyFresh ==
    [][ (lastOp'.op = "generate_dwg" /\ lastOp'.status = "ok") =>
            /\ ~HasKey(cache, lastOp'.key)
            /\ \A i \in 1..Len(cache) :
                  HasKey(cache', cache[i].key) =>
                      EntryOf(cache', cache[i].key).data = cache[i].data ]_vars

\* a cached drawing replaced by a later generate_dwg that drew its key again
KeyCollision ==
    /\ lastOp.op = "generate_dwg"
    /\ lastOp.status = "ok"
    /\ lastOp.hit
    /\ HasKey(cache, lastOp.key)
    /\ Len(cache) = 2

RECURSIVE SizesBefore(_, _, _, _)
\* the sizes of the entries named by ks as they were when eviction began
SizesBefore(ks, c, k, data) ==
    IF ks = <<>> THEN 0
    ELSE (IF Head(ks) = k THEN Len(data) ELSE Len(EntryOf(c, Head(ks)).data))
         + SizesBefore(Tail(ks), c, k, data)

\* C15: set on a key already present: before eviction runs the key has one
\* entry, holding the new data, last in recency (first in list_keys), the
\* other entries keep their order and data, the count is unchanged and
\* current_bytes has moved by len(new) - len(old).  The entries before
\* eviction are the evicted ones followed by the ones that remain.
SetReplacesEntry ==
    [][ (lastOp'.op = "set" /\ HasKey(cache, lastOp'.key)) =>
            LET k == lastOp'.key
                data == lastOp'.data
                before == lastOp'.evicted \o KeysOf(cache')
            IN  /\ Cardinality({i \in 1..Len(before) : before[i] = k}) = 1
                /\ HasKey(cache', k) => EntryOf(cache', k).data = data
                /\ before[Len(before)] = k
                /\ Head(Reverse(before)) = k
                /\ lastOp'.evicted = <<>> => Head(ListKeys(cache')) = k
                /\ Without(before, k) = Without(KeysOf(cache), k)
                /\ \A i \in 1..Len(cache') :
                      cache'[i].key # k => cache'[i] = EntryOf(cache, cache'[i].key)
                /\ Len(before) = Len(cache)
                /\ (current_bytes' + SizesBefore(lastOp'.evicted, cache, k, data))
                       - current_bytes
                   = Len(data) - Len(EntryOf(cache, k).data) ]_vars

\* the oldest of three entries set again with longer data, nothing evicted
SetReplacesWitness ==
    /\ lastOp.op = "set"
    /\ lastOp.hit
    /\ lastOp.evicted = <<>>
    /\ KeysOf(cache) = <<"b", "c", "a">>
    /\ Len(lastOp.data) = 2
    /\ current_bytes = 2

----------------------------------------------------------------------------
(* Claims about the swing arc *)

\* cos and sin of a multiple of 90 degrees
Cos90(a) == CASE a % 360 = 0 -> 1 [] a % 360 = 90 -> 0 [] a % 360 = 180 -> 0 - 1 [] OTHER -> 0
Sin90(a) == CASE a % 360 = 0 -> 0 [] a % 360 = 90 -> 1 [] a % 360 = 180 -> 0 [] OTHER -> 0 - 1

\* the point of the arc at angle a
ArcPoint(arc, a) ==
    <<arc.center[1] + arc.radius * Cos90(a), arc.center[2] + arc.radius * Sin90(a)>>

InRoom(pt, L, W) == pt[1] >= 0 /\ pt[1] <= L /\ pt[2] >= 0 /\ pt[2] <= W

\* every point of a quarter arc between two multiples of 90 degrees has its x
\* and its y between those of the two end points, so the arc is inside the
\* rectangle exactly when both end points are
ArcInRoom(arc, L, W) ==
    /\ arc.end_angle - arc.start_angle = 90
    /\ InRoom(ArcPoint(arc, arc.start_angle), L, W)
    /\ InRoom(ArcPoint(arc, arc.end_angle), L, W)

WallLength(side, L, W) == IF side \in {"east", "west"} THEN W ELSE L

\* C16: for a door on any of the four walls that is not wider than its wall,
\* every point of the swing arc lies inside [0, length] x [0, width].
ArcInsideRoom ==
    (lastOp.op = "generate_dwg" /\ OnlyDoors(lastOp.p)) =>
        LET dims == EnsureDimensions(lastOp.p)
            msp == Entities(lastOp.data)
            els == lastOp.p.d["elements"].items
        IN  \A i \in 1..Len(els) :
               WidthOf(els[i]) <= WallLength(ClaimedWall(els[i]), dims.length, dims.width)
                   => ArcInRoom(msp[3 * i + 1], dims.length, dims.width)

\* a door 4 wide on the 10 long east wall of the 12 x 10 room: the arc ends
\* at (12, -1), below the south wall
ArcLeavesRoom ==
    /\ lastOp.op = "generate_dwg"
    /\ lastOp.p.d["elements"].items =
           <<Element(Str(door), Str(east), SizeOf(Num(4 * Scale)))>>
    /\ EnsureDimensions(lastOp.p).length = 12 * Scale
    /\ EnsureDimensions(lastOp.p).width = 10 * Scale
    /\ lastOp.data[4].dxf.kind = "ARC"
    /\ ArcPoint(lastOp.data[4].dxf, lastOp.data[4].dxf.end_angle) = <<12 * Scale, 0 - Scale>>

\* where the arc is as the code draws it: on the east and west walls it is
\* inside the room exactly when 3 * w <= width and w <= length, on the north
\* and south walls exactly when w <= length and w <= width
ArcAsCoded ==
    (lastOp.op = "generate_dwg" /\ OnlyDoors(lastOp.p)) =>
        LET dims == EnsureDimensions(lastOp.p)
            msp == Entities(lastOp.data)
            els == lastOp.p.d["elements"].items
        IN  \A i \in 1..Len(els) :
               ArcInRoom(msp[3 * i + 1], dims.length, dims.width)
                   <=> IF ClaimedWall(els[i]) \in {"east", "west"}
                       THEN 3 * WidthOf(els[i]) <= dims.width /\ WidthOf(els[i]) <= dims.length
                       ELSE WidthOf(els[i]) <= dims.length /\ WidthOf(els[i]) <= dims.width

====
